---- MODULE Spec2Model ----
(***************************************************************************)
(* Model of DBFFile (browser build): DBFFile.open / openDBF,               *)
(* DBFFile.readRecords / readRecordsFromDBF and the async iterator.        *)
(*                                                                         *)
(* Buffers are sequences of bytes (index 0 of the code is index 1 here).   *)
(* Strings are sequences of character codes.  A decoded JavaScript value   *)
(* is a pair <<kind, payload>> of integers/sequences (see NullValue etc.). *)
(* A record is a function from property keys to values; a string key is    *)
(* <<0>> \o name and the DELETED symbol is a key no string key can equal.  *)
(***************************************************************************)
EXTENDS Integers, Sequences, FiniteSets, TLC

(***************************************************************************)
(* Bounds of the model.                                                    *)
(***************************************************************************)
MaxRecords == 2        \* raw records in a small file
MaxCalls == 3          \* direct readRecords calls made on one handle
MaxIterations == 2     \* iterations started on one handle
ExtraRecords == 1      \* records of a large file beyond a batch or a window

(***************************************************************************)
(* Program constants.                                                      *)
(***************************************************************************)
DefaultMaxCount == 10000000
WindowSize == 1000
IterBatch == 100
HeaderSize == 32
DescriptorSize == 32
Terminator == 13          \* 0x0d
DeletedFlag == 42         \* 0x2a
Space == 32               \* 0x20
DefaultBlockSize == 512
MemoTerminator == 26      \* 0x1a
TextMemo == 1             \* the type tag of a text memo
ReplacementChar == 65533  \* U+FFFD

Undefined == -1           \* reading a typed array outside its range

Min(a, b) == IF a <= b THEN a ELSE b

Min3(a, b, c) == Min(a, Min(b, c))

\* buffer[offset] of a Uint8Array: undefined when out of range
ByteAt(buf, offset) ==
    IF offset >= 0 /\ offset < Len(buf) THEN buf[offset + 1] ELSE Undefined

\* buffer.slice(start, end) / subarray(start, end), clamped to the buffer
Slice(buf, start, end) ==
    LET e == Min(end, Len(buf))
    IN  IF start >= e THEN <<>> ELSE SubSeq(buf, start + 1, e)

\* DataView.getInt32(0, true) over data.slice(offset, offset + 4):
\* a RangeError when fewer than 4 bytes are there
CanGetInt(buf, offset, width) == offset >= 0 /\ offset + width <= Len(buf)

GetInt32LE(buf, offset) ==
    LET b0 == buf[offset + 1]
        b1 == buf[offset + 2]
        b2 == buf[offset + 3]
        b3 == buf[offset + 4]
        hi == IF b3 >= 128 THEN b3 - 256 ELSE b3
    IN  b0 + 256 * b1 + 65536 * b2 + 16777216 * hi

GetInt16LE(buf, offset) ==
    LET b0 == buf[offset + 1]
        b1 == buf[offset + 2]
        hi == IF b1 >= 128 THEN b1 - 256 ELSE b1
    IN  b0 + 256 * hi

\* decoder.decode(bytes).split("\0")[0]: the bytes before the first NUL
RECURSIVE UpToNul(_)
UpToNul(bytes) ==
    IF bytes = <<>> \/ Head(bytes) = 0 THEN <<>>
    ELSE <<Head(bytes)>> \o UpToNul(Tail(bytes))

(***************************************************************************)
(* file-version.ts                                                         *)
(***************************************************************************)
FileVersions == {3, 131, 139, 48, 245}

\* every version tag taken as valid
isValidFileVersion_Any(fileVersion) == TRUE

isValidFileVersion(fileVersion) == fileVersion \in FileVersions


(***************************************************************************)
(* field-descriptor.ts is not part of the sources at hand.  The validator  *)
(* is modelled from the specification: the type tag must be one of the     *)
(* decodable types and the size must be the one the type's decoding uses.  *)
(***************************************************************************)
CharC == 67
CharL == 76
CharM == 77

\* a field type the switch of readRecordsFromDBF has no case for
CharX == 88

\* the field types whose decoding the model covers
FieldTypes == {CharC, CharL, CharM}

validateFieldDescriptor(field, fileVersion) ==
    /\ Len(field.name) >= 1
    /\ field.type \in FieldTypes
    /\ field.size >= 1
    /\ (field.type = CharL => field.size = 1)
    /\ (field.type = CharM
          => field.size = (IF fileVersion = 48 THEN 4 ELSE 10))

(***************************************************************************)
(* openDBF                                                                 *)
(***************************************************************************)
\* one 32-byte entry of the field-descriptor table
ReadFieldDescriptor(buffer, offset) ==
    [name |-> UpToNul(Slice(buffer, offset, offset + 11)),
     type |-> ByteAt(buffer, offset + 11),
     size |-> ByteAt(buffer, offset + 16),
     decimalPlaces |-> ByteAt(buffer, offset + 17)]

\* calculateRecordLengthInBytes
RECURSIVE SumSizes(_)
SumSizes(fields) ==
    IF fields = <<>> THEN 0 ELSE Head(fields).size + SumSizes(Tail(fields))

calculateRecordLengthInBytes(fields) == 1 + SumSizes(fields)

\* the duplicate-name check left out
DuplicateFieldName_Never(fields, field) == FALSE

\* !fields.every((f) => f.name !== field.name)
DuplicateFieldName(fields, field) ==
    \E i \in 1..Len(fields) : fields[i].name = field.name

\* the while loop over the descriptor table; the result is the state of the
\* loop when it is left: [err, offset, fields]
RECURSIVE ParseFields(_, _, _, _, _, _)
ParseFields(buffer, headerLength, readMode, fileVersion, offset, fields) ==
    IF ~(headerLength > offset) \/ ByteAt(buffer, offset) = Terminator
    THEN [err |-> "none", offset |-> offset, fields |-> fields]
    ELSE LET field == ReadFieldDescriptor(buffer, offset)
         IN  IF readMode # "loose" /\ ~validateFieldDescriptor(field, fileVersion)
             THEN [err |-> "field", offset |-> offset + DescriptorSize,
                   fields |-> fields]
             ELSE IF readMode # "loose" /\ DuplicateFieldName(fields, field)
             THEN [err |-> "duplicate", offset |-> offset + DescriptorSize,
                   fields |-> fields]
             ELSE ParseFields(buffer, headerLength, readMode, fileVersion,
                              offset + DescriptorSize, Append(fields, field))

\* memoData?: ArrayBuffer left out
NoMemoData == <<Undefined>>

\* new DBFFile(): the class's field initialisers
NewDBFFile ==
    [recordCount |-> 0, dateOfLastUpdate |-> <<0, 0, 0>>, fields |-> <<>>,
     _readMode |-> "strict", _includeDeletedRecords |-> FALSE,
     _encoding |-> "", _recordsRead |-> 0, _headerLength |-> 0,
     _recordLength |-> 0, _memoData |-> NoMemoData, _version |-> 0]

\* loose mode keeping the header's record length
OpenRecordLength_Stated(readMode, stated, computed) == stated

\* the record length the handle gets: the header's in strict mode, the
\* computed one in loose mode
OpenRecordLength(readMode, stated, computed) ==
    IF readMode = "loose" THEN computed ELSE stated

\* the terminator check left out
HeaderTerminatorFound_Unchecked(buffer, offset) == TRUE

\* buffer[offset++] === 0x0d after the descriptor table
HeaderTerminatorFound(buffer, offset) == ByteAt(buffer, offset) = Terminator

\* openDBF(data, memoData, opts): [err, dbf]; err # "none" is a throw
openDBF(buffer, memoData, options) ==
    IF ~CanGetInt(buffer, 4, 4) \/ ~CanGetInt(buffer, 8, 2)
       \/ ~CanGetInt(buffer, 10, 2)
    THEN [err |-> "range", dbf |-> NewDBFFile]
    ELSE
    LET fileVersion == ByteAt(buffer, 0)
        dateOfLastUpdate == <<ByteAt(buffer, 1) + 1900, ByteAt(buffer, 2),
                              ByteAt(buffer, 3)>>
        recordCount == GetInt32LE(buffer, 4)
        headerLength == GetInt16LE(buffer, 8)
        stated == GetInt16LE(buffer, 10)
        parsed == ParseFields(buffer, headerLength, options.readMode,
                              fileVersion, HeaderSize, <<>>)
        computedRecordLength == calculateRecordLengthInBytes(parsed.fields)
        recordLength == OpenRecordLength(options.readMode, stated,
                                         computedRecordLength)
    IN  IF options.readMode # "loose" /\ ~isValidFileVersion(fileVersion)
        THEN [err |-> "version", dbf |-> NewDBFFile]
        ELSE IF parsed.err # "none"
        THEN [err |-> parsed.err, dbf |-> NewDBFFile]
        ELSE IF ~HeaderTerminatorFound(buffer, parsed.offset)
        THEN [err |-> "terminator", dbf |-> NewDBFFile]
        ELSE IF recordLength # computedRecordLength
        THEN [err |-> "recordLength", dbf |-> NewDBFFile]
        ELSE [err |-> "none",
              dbf |-> [recordCount |-> recordCount,
                       dateOfLastUpdate |-> dateOfLastUpdate,
                       fields |-> parsed.fields,
                       _readMode |-> options.readMode,
                       _encoding |-> options.encoding,
                       _includeDeletedRecords |-> options.includeDeletedRecords,
                       _recordsRead |-> 0,
                       _headerLength |-> headerLength,
                       _recordLength |-> recordLength,
                       _memoData |-> memoData,
                       _version |-> fileVersion]]

(***************************************************************************)
(* Decoded values and records                                              *)
(***************************************************************************)
NullValue == <<0>>
BoolValue(b) == <<1, IF b THEN 1 ELSE 0>>
StringValue(chars) == <<2>> \o chars

StringKey(name) == <<0>> \o name
\* export const DELETED = Symbol(): a key that is no string
DELETED == <<1>>

EmptyRecord == [k \in {} |-> NullValue]

\* an assignment that leaves a property that is there as it is
SetProperty_KeepFirst(record, key, value) ==
    [k \in (DOMAIN record) \cup {key} |->
        IF k \in DOMAIN record THEN record[k] ELSE value]

\* record[key] = value
SetProperty(record, key, value) ==
    [k \in (DOMAIN record) \cup {key} |-> IF k = key THEN value ELSE record[k]]

(***************************************************************************)
(* readRecordsFromDBF                                                      *)
(***************************************************************************)
\* case "C": the length left after the trailing spaces are dropped
RECURSIVE EffectiveLen(_, _, _)
EffectiveLen(buffer, offset, len) ==
    IF len > 0 /\ ByteAt(buffer, offset + len - 1) = Space
    THEN EffectiveLen(buffer, offset, len - 1)
    ELSE len

\* case "L": "TtYy" is true, "FfNn" is false, anything else null
DecodeLogical(c) ==
    IF c \in {84, 116, 89, 121} THEN BoolValue(TRUE)
    ELSE IF c \in {70, 102, 78, 110} THEN BoolValue(FALSE)
    ELSE NullValue

\* the bytes of the record that decoding a logical field moves past
LogicalWidth(field) == 1

\* getEncoding(encoding, field) for an encoding option that is a string
getEncoding(encoding, field) == encoding

RECURSIVE Utf8Decode(_)
Utf8Decode(bytes) ==
    IF bytes = <<>> THEN <<>>
    ELSE LET b == Head(bytes)
         IN  IF b < 128 THEN <<b>> \o Utf8Decode(Tail(bytes))
             ELSE IF b >= 194 /\ b < 224 /\ Len(bytes) >= 2
                     /\ bytes[2] >= 128 /\ bytes[2] < 192
             THEN <<(b - 192) * 64 + (bytes[2] - 128)>>
                      \o Utf8Decode(Tail(Tail(bytes)))
             ELSE <<ReplacementChar>> \o Utf8Decode(Tail(bytes))

\* decodeBytes: new TextDecoder(enc).decode(bytes), as code points.  "utf-8"
\* is decoded for sequences of one and two bytes (the files of the model
\* hold no longer ones); any other encoding is one character per byte.
decodeBytes(bytes, enc) ==
    IF enc = "utf-8" THEN Utf8Decode(bytes) ELSE bytes

\* decodeAt(start, length, enc)
decodeAt(buffer, start, length, enc) ==
    decodeBytes(Slice(buffer, start, start + length), enc)

\* parseInt(text): leading white space, a sign, then the digits (hexadecimal
\* after 0x); [nan, value]
RECURSIVE SkipWhitespace(_)
SkipWhitespace(chars) ==
    IF chars # <<>> /\ Head(chars) \in {9, 10, 11, 12, 13, 32}
    THEN SkipWhitespace(Tail(chars))
    ELSE chars

DigitValue(c) ==
    IF c \in 48..57 THEN c - 48
    ELSE IF c \in 97..122 THEN c - 87
    ELSE IF c \in 65..90 THEN c - 55
    ELSE 36

RECURSIVE ParseDigits(_, _, _, _)
ParseDigits(chars, radix, acc, seen) ==
    IF chars # <<>> /\ DigitValue(Head(chars)) < radix
    THEN ParseDigits(Tail(chars), radix,
                     acc * radix + DigitValue(Head(chars)), TRUE)
    ELSE [nan |-> ~seen, value |-> acc]

parseInt(chars) ==
    LET s == SkipWhitespace(chars)
        negative == s # <<>> /\ Head(s) = 45
        t == IF s # <<>> /\ Head(s) \in {43, 45} THEN Tail(s) ELSE s
        hex == Len(t) >= 2 /\ t[1] = 48 /\ t[2] \in {88, 120}
        r == IF hex THEN ParseDigits(Tail(Tail(t)), 16, 0, FALSE)
             ELSE ParseDigits(t, 10, 0, FALSE)
    IN  [nan |-> r.nan, value |-> IF negative THEN 0 - r.value ELSE r.value]

\* DataView reads of the memo file
GetUint16BE(buf, offset) == ByteAt(buf, offset) * 256 + ByteAt(buf, offset + 1)

GetInt32BE(buf, offset) ==
    LET b0 == ByteAt(buf, offset)
    IN  (IF b0 >= 128 THEN b0 - 256 ELSE b0) * 16777216
        + ByteAt(buf, offset + 1) * 65536 + ByteAt(buf, offset + 2) * 256
        + ByteAt(buf, offset + 3)

\* getUint32(0, true); the memo files of the model keep it below 2^31
GetUint32LE(buf, offset) ==
    ByteAt(buf, offset) + ByteAt(buf, offset + 1) * 256
    + ByteAt(buf, offset + 2) * 65536 + ByteAt(buf, offset + 3) * 16777216

\* the memo block size, read when readRecords starts: [ok, size]; ok = FALSE
\* is the RangeError of a DataView over a memo file shorter than 8 bytes
MemoBlockSize(dbf) ==
    IF dbf._memoData = NoMemoData THEN [ok |-> TRUE, size |-> 0]
    ELSE IF dbf._version \in {48, 245}
    THEN IF Len(dbf._memoData) < 8 THEN [ok |-> FALSE, size |-> 0]
         ELSE LET n == GetUint16BE(dbf._memoData, 6)
              IN  [ok |-> TRUE, size |-> IF n = 0 THEN DefaultBlockSize ELSE n]
    ELSE IF dbf._version = 139
    THEN IF Len(dbf._memoData) < 8 THEN [ok |-> FALSE, size |-> 0]
         ELSE LET n == GetInt32BE(dbf._memoData, 4)
              IN  [ok |-> TRUE, size |-> IF n = 0 THEN DefaultBlockSize ELSE n]
    ELSE [ok |-> TRUE, size |-> DefaultBlockSize]

\* ensureRange(absoluteOffset, length): FALSE is its throw
ensureRange(memoView, absoluteOffset, length) ==
    ~(absoluteOffset < 0 \/ absoluteOffset >= Len(memoView)
      \/ absoluteOffset + length > Len(memoView))

\* collectBytes(startBlockIndex, skipFirstBytes, totalLength): [ok, bytes]
collectBytes(memoView, memoBlockSize, startBlockIndex, skipFirstBytes, totalLength) ==
    IF totalLength <= 0 THEN [ok |-> TRUE, bytes |-> <<>>]
    ELSE LET startOffset == startBlockIndex * memoBlockSize + skipFirstBytes
         IN  IF ~ensureRange(memoView, startOffset, totalLength)
             THEN [ok |-> FALSE, bytes |-> <<>>]
             ELSE [ok |-> TRUE,
                   bytes |-> Slice(memoView, startOffset,
                                   startOffset + totalLength)]

\* memoView.indexOf(value, fromIndex)
IndexOf(memoView, value, fromIndex) ==
    LET found == {i \in fromIndex..(Len(memoView) - 1) :
                     ByteAt(memoView, i) = value}
    IN  IF found = {} THEN -1
        ELSE CHOOSE i \in found : \A k \in found : i <= k

\* .replace(/\r\n/g, "\n")
RECURSIVE ReplaceCrLf(_)
ReplaceCrLf(chars) ==
    IF chars = <<>> THEN <<>>
    ELSE IF Len(chars) >= 2 /\ chars[1] = 13 /\ chars[2] = 10
    THEN <<10>> \o ReplaceCrLf(Tail(Tail(chars)))
    ELSE <<Head(chars)>> \o ReplaceCrLf(Tail(chars))

\* .replace(/\n(?!$)/g, "\n" followed by 16 spaces)
RECURSIVE IndentLines(_)
IndentLines(chars) ==
    IF chars = <<>> THEN <<>>
    ELSE IF Head(chars) = 10 /\ Tail(chars) # <<>>
    THEN <<10>> \o [k \in 1..16 |-> Space] \o IndentLines(Tail(chars))
    ELSE <<Head(chars)>> \o IndentLines(Tail(chars))

\* the text of a memo decoded per block instead of once
MemoText_PerBlock(memoBytes, encoding, memoBlockSize) ==
    LET first == Min(Len(memoBytes), memoBlockSize - 8)
    IN  decodeBytes(SubSeq(memoBytes, 1, first), encoding)
        \o decodeBytes(SubSeq(memoBytes, first + 1, Len(memoBytes)), encoding)

\* decodeBytes(memoBytes, encoding) of a collected memo
MemoText(memoBytes, encoding, memoBlockSize) == decodeBytes(memoBytes, encoding)

\* a memo of another type treated as text
IsTextMemo_Always(memoType) == TRUE

\* memoType !== 1 is not text
IsTextMemo(memoType) == memoType = TextMemo

\* case "M" once the pointer is not zero and the memo file is there:
\* [kind, value], kind "throw" or "value"
ResolveMemo(dbf, memoView, memoBlockSize, blockIndex, encoding) ==
    LET blockOffset == blockIndex * memoBlockSize
        fail == [kind |-> "throw", value |-> NullValue]
    IN  IF memoBlockSize <= 0 THEN fail
        ELSE IF ~ensureRange(memoView, blockOffset, 0) THEN fail
        ELSE IF dbf._version = 131
        THEN LET terminator == IndexOf(memoView, MemoTerminator, blockOffset)
                 end == IF terminator = -1 THEN Len(memoView) ELSE terminator
                 decoded == decodeBytes(Slice(memoView, blockOffset, end),
                                        encoding)
             IN  [kind |-> "value",
                  value |-> StringValue(IndentLines(ReplaceCrLf(decoded)))]
        ELSE IF dbf._version = 139
        THEN IF ~ensureRange(memoView, blockOffset + 4, 4) THEN fail
             ELSE LET stated == GetUint32LE(memoView, blockOffset + 4) - 8
                      memoLength == IF stated < 0 THEN 0 ELSE stated
                      memoBytes == collectBytes(memoView, memoBlockSize,
                                                blockIndex, 8, memoLength)
                  IN  IF ~memoBytes.ok THEN fail
                      ELSE [kind |-> "value",
                            value |-> StringValue(
                                MemoText(memoBytes.bytes, encoding,
                                         memoBlockSize))]
        ELSE IF dbf._version \in {48, 245}
        THEN IF ~ensureRange(memoView, blockOffset, 4) THEN fail
             ELSE IF ~IsTextMemo(GetInt32BE(memoView, blockOffset))
             THEN [kind |-> "value", value |-> StringValue(<<>>)]
             ELSE IF ~ensureRange(memoView, blockOffset + 4, 4) THEN fail
             ELSE LET stated == GetInt32BE(memoView, blockOffset + 4)
                      memoLength == IF stated < 0 THEN 0 ELSE stated
                      memoBytes == collectBytes(memoView, memoBlockSize,
                                                blockIndex, 8, memoLength)
                  IN  IF ~memoBytes.ok THEN fail
                      ELSE [kind |-> "value",
                            value |-> StringValue(
                                MemoText(memoBytes.bytes, encoding,
                                         memoBlockSize))]
        ELSE fail

\* the memo pointer of case "M": [ok, nan, value]; ok = FALSE is the
\* RangeError of a DataView of fewer than 4 bytes
BlockIndex(dbf, buffer, offset, len, encoding) ==
    IF dbf._version = 48
    THEN IF len < 4 \/ offset + len > Len(buffer)
         THEN [ok |-> FALSE, nan |-> FALSE, value |-> 0]
         ELSE [ok |-> TRUE, nan |-> FALSE, value |-> GetInt32LE(buffer, offset)]
    ELSE LET n == parseInt(decodeAt(buffer, offset, len, encoding))
         IN  [ok |-> TRUE, nan |-> n.nan, value |-> n.value]

\* if (!memoView): strict mode throws, loose mode goes on to the next field
MissingMemo(dbf, offset) ==
    IF dbf._readMode = "strict"
    THEN [kind |-> "throw", value |-> NullValue, offset |-> offset]
    ELSE [kind |-> "skip", value |-> NullValue, offset |-> offset]

MemoAt(r, offset) == [kind |-> r.kind, value |-> r.value, offset |-> offset]

\* a pointer that is never taken for "no memo"
IsNullPointer_Never(blockIndex) == FALSE

\* isNaN(blockIndex) || blockIndex === 0
IsNullPointer(blockIndex) == blockIndex.nan \/ blockIndex.value = 0

\* case "M" from the pointer on; offset is already past the field
DecodeMemoAt(dbf, offset, encoding, blockIndex) ==
    IF ~blockIndex.ok
    THEN [kind |-> "throw", value |-> NullValue, offset |-> offset]
    ELSE IF IsNullPointer(blockIndex)
    THEN [kind |-> "value", value |-> NullValue, offset |-> offset]
    ELSE IF dbf._memoData = NoMemoData
    THEN MissingMemo(dbf, offset)
    ELSE MemoAt(ResolveMemo(dbf, dbf._memoData, MemoBlockSize(dbf).size,
                            blockIndex.value, encoding),
                offset)

\* case "M"
DecodeMemo(dbf, buffer, offset, field) ==
    DecodeMemoAt(dbf, offset + field.size, getEncoding(dbf._encoding, field),
                 BlockIndex(dbf, buffer, offset, field.size,
                            getEncoding(dbf._encoding, field)))

\* the switch on field.type for one field at offset: [kind, value, offset];
\* kind "value" assigns record[field.name], "skip" is the loose-mode continue,
\* "throw" is an error.  The cases N, F, T, D, B and I are not covered: the
\* schemas of the model hold C, L and M fields and fields of a type the
\* switch has no case for.
DecodeField(dbf, buffer, offset, field) ==
    IF field.type = CharC
    THEN LET effectiveLen == EffectiveLen(buffer, offset, field.size)
         IN  [kind |-> "value",
              value |-> IF effectiveLen > 0
                        THEN StringValue(decodeAt(buffer, offset, effectiveLen,
                                                  getEncoding(dbf._encoding,
                                                              field)))
                        ELSE StringValue(<<>>),
              offset |-> offset + field.size]
    ELSE IF field.type = CharL
    THEN [kind |-> "value",
          value |-> DecodeLogical(ByteAt(buffer, offset)),
          offset |-> offset + LogicalWidth(field)]
    ELSE IF field.type = CharM
    THEN DecodeMemo(dbf, buffer, offset, field)
    ELSE IF dbf._readMode = "strict"
    THEN [kind |-> "throw", value |-> NullValue, offset |-> offset]
    ELSE [kind |-> "skip", value |-> NullValue, offset |-> offset + field.size]

\* the loop over dbf.fields for one record: [ok, offset, record]
RECURSIVE ParseRecordFields(_, _, _, _, _)

\* the end of the loop body for field j, decoded as d: a throw leaves the
\* loop, continue leaves the record as it is, break assigns
\* record[field.name] = value
AfterField(dbf, buffer, j, offset, record, d) ==
    IF d.kind = "throw"
    THEN [ok |-> FALSE, offset |-> offset, record |-> record]
    ELSE ParseRecordFields(dbf, buffer, j + 1, d.offset,
             IF d.kind = "skip" THEN record
             ELSE SetProperty(record, StringKey(dbf.fields[j].name), d.value))

ParseRecordFields(dbf, buffer, j, offset, record) ==
    IF j > Len(dbf.fields)
    THEN [ok |-> TRUE, offset |-> offset, record |-> record]
    ELSE AfterField(dbf, buffer, j, offset, record,
                    DecodeField(dbf, buffer, offset, dbf.fields[j]))

\* deleted records never left out
SkipsRecord_Never(dbf, isDeleted) == FALSE

\* a record whose flag is 0x2a is left out unless deleted records are asked for
SkipsRecord(dbf, isDeleted) == isDeleted /\ ~dbf._includeDeletedRecords

\* a skip that forgets the flag byte already consumed
SkipOffset_Whole(offset, recordLength) == offset + recordLength

\* the offset after a record that is left out
SkipOffset(offset, recordLength) == offset + recordLength - 1

\* the record as it is pushed: a deleted one gets the DELETED property
MarkDeleted(record, isDeleted) ==
    IF isDeleted THEN SetProperty(record, DELETED, BoolValue(TRUE)) ELSE record

\* one pass of the loop over the records of a chunk, from the loop state
\* st = [ok, offset, records, skipped]; skipped counts the records left
\* out, and ok = FALSE is a throw, which ends the loop
PushRecord(st, r, isDeleted) ==
    IF ~r.ok THEN [st EXCEPT !.ok = FALSE]
    ELSE [st EXCEPT !.offset = r.offset,
                    !.records = Append(st.records,
                                       MarkDeleted(r.record, isDeleted))]

ParseRecord(dbf, buffer, st) ==
    IF ~st.ok THEN st
    ELSE LET isDeleted == ByteAt(buffer, st.offset) = DeletedFlag
         IN  IF SkipsRecord(dbf, isDeleted)
             THEN [st EXCEPT !.offset = SkipOffset(st.offset + 1,
                                                   dbf._recordLength),
                             !.skipped = st.skipped + 1]
             ELSE PushRecord(st,
                             ParseRecordFields(dbf, buffer, 1, st.offset + 1,
                                               EmptyRecord),
                             isDeleted)

\* count passes of the loop, one after the other (the recursion halves the
\* count only to keep the evaluation shallow)
RECURSIVE ParseRecords(_, _, _, _)
ParseRecords(dbf, buffer, count, st) ==
    IF count <= 0 THEN st
    ELSE IF count = 1 THEN ParseRecord(dbf, buffer, st)
    ELSE LET half == count \div 2
             first == ParseRecords(dbf, buffer, half, st)
         IN  IF ~first.ok THEN first
             ELSE ParseRecords(dbf, buffer, count - half, first)

\* for (let i = 0, offset = 0; i < recordCountToRead; ++i)
ParseChunk(dbf, buffer, recordCountToRead, records, skipped) ==
    ParseRecords(dbf, buffer, recordCountToRead,
                 [ok |-> TRUE, offset |-> 0, records |-> records,
                  skipped |-> skipped])

\* Math.min(maxCount, 1000)
RecordCountPerBuffer(maxCount) == Min(maxCount, WindowSize)

\* how many records the next chunk holds
RecordCountToRead(dbf, recordsRead, maxCount, returned) ==
    Min3(dbf.recordCount - recordsRead, maxCount - returned,
         RecordCountPerBuffer(maxCount))

\* new Uint8Array(dbf.data, byteOffset, length) is a RangeError unless the
\* range lies in the data
ChunkInRange(data, byteOffset, length) ==
    byteOffset >= 0 /\ byteOffset + length <= Len(data)

\* the cursor assigned instead of advanced
AdvanceCursor_Assign(recordsRead, recordCountToRead) == recordCountToRead

\* _recordsRead after the chunk has been taken
AdvanceCursor(recordsRead, recordCountToRead) == recordsRead + recordCountToRead

\* the cursor advanced before the chunk's view is made
RangeErrorCursor_Advanced(recordsRead, recordCountToRead) ==
    recordsRead + recordCountToRead

\* new Uint8Array(...) throws before dbf._recordsRead += recordCountToRead
RangeErrorCursor(recordsRead, recordCountToRead) == recordsRead

\* a throw that hands over the records decoded before it
ThrownRecords_Partial(records) == records

\* a throw leaves the call without its records array
ThrownRecords(records) == <<>>

\* the while loop over the chunks: [ok, recordsRead, records, skipped];
\* ok = FALSE is a throw, and recordsRead is then the cursor the throw leaves
RECURSIVE ReadChunks(_, _, _, _, _, _)

\* after the records of a chunk, parsed as c, with the cursor advanced: a
\* throw leaves the call, otherwise the while loop goes on
AfterChunk(dbf, data, maxCount, advanced, c) ==
    IF ~c.ok
    THEN [ok |-> FALSE, recordsRead |-> advanced,
          records |-> ThrownRecords(c.records), skipped |-> c.skipped]
    ELSE ReadChunks(dbf, data, maxCount, advanced, c.records, c.skipped)

ReadChunks(dbf, data, maxCount, recordsRead, records, skipped) ==
    IF ~(recordsRead < dbf.recordCount /\ Len(records) < maxCount)
    THEN [ok |-> TRUE, recordsRead |-> recordsRead, records |-> records,
          skipped |-> skipped]
    ELSE LET recordCountToRead ==
                 RecordCountToRead(dbf, recordsRead, maxCount, Len(records))
             byteOffset == dbf._headerLength + recordsRead * dbf._recordLength
             length == dbf._recordLength * recordCountToRead
         IN  IF recordCountToRead = 0
             THEN [ok |-> TRUE, recordsRead |-> recordsRead,
                   records |-> records, skipped |-> skipped]
             ELSE IF ~ChunkInRange(data, byteOffset, length)
             THEN [ok |-> FALSE,
                   recordsRead |-> RangeErrorCursor(recordsRead,
                                                    recordCountToRead),
                   records |-> <<>>, skipped |-> skipped]
             ELSE AfterChunk(dbf, data, maxCount,
                             AdvanceCursor(recordsRead, recordCountToRead),
                             ParseChunk(dbf,
                                        Slice(data, byteOffset,
                                              byteOffset + length),
                                        recordCountToRead, records, skipped))

\* readRecordsFromDBF(dbf, maxCount) on the handle's data
readRecordsFromDBF(dbf, data, maxCount) ==
    IF ~MemoBlockSize(dbf).ok
    THEN [ok |-> FALSE, recordsRead |-> dbf._recordsRead, records |-> <<>>,
          skipped |-> 0]
    ELSE ReadChunks(dbf, data, maxCount, dbf._recordsRead, <<>>, 0)

(***************************************************************************)
(* The files handed to open.  A file is laid out as openDBF reads it: the  *)
(* 32-byte header, one 32-byte descriptor per field, the 0x0d terminator   *)
(* and the records.                                                        *)
(***************************************************************************)
Zeros(n) == [i \in 1..n |-> 0]

RECURSIVE Pow256(_)
Pow256(k) == IF k = 0 THEN 1 ELSE 256 * Pow256(k - 1)

\* n as width little-endian bytes (two's complement)
LEBytes(n, width) == [i \in 1..width |-> (n \div Pow256(i - 1)) % 256]

HeaderBytes(version, recordCount, headerLength, recordLength) ==
    <<version, 114, 4, 14>> \o LEBytes(recordCount, 4)
        \o LEBytes(headerLength, 2) \o LEBytes(recordLength, 2) \o Zeros(20)

DescriptorBytes(field) ==
    field.name \o Zeros(11 - Len(field.name)) \o <<field.type>> \o Zeros(4)
        \o <<field.size, field.decimalPlaces>> \o Zeros(14)

RECURSIVE TableBytes(_)
TableBytes(fields) ==
    IF fields = <<>> THEN <<>>
    ELSE DescriptorBytes(Head(fields)) \o TableBytes(Tail(fields))

\* the bytes of field `field` in raw record i: one content byte, then spaces
FieldBytes(field, i) ==
    <<IF field.type = CharL THEN (IF i % 2 = 1 THEN 84 ELSE 70)
      ELSE 97 + ((i - 1) % 26)>> \o [k \in 1..(field.size - 1) |-> Space]

RECURSIVE RecordFieldBytes(_, _)
RecordFieldBytes(fields, i) ==
    IF fields = <<>> THEN <<>>
    ELSE FieldBytes(Head(fields), i) \o RecordFieldBytes(Tail(fields), i)

\* raw records 1..n one after the other, record i with deletion flag flags[i]
RecordsBytes(fields, flags, n) ==
    LET recordLength == calculateRecordLengthInBytes(fields)
        raw == [i \in 1..n |-> <<flags[i]>> \o RecordFieldBytes(fields, i)]
    IN  [k \in 1..(n * recordLength) |->
            raw[((k - 1) \div recordLength) + 1][((k - 1) % recordLength) + 1]]

Field(name, type, size) ==
    [name |-> name, type |-> type, size |-> size, decimalPlaces |-> 0]

\* A: C(2) / A: C(1), B: L(1) / B: L(2), a size no valid logical field has /
\* A: C(1), A: L(1), a name twice
Schemas ==
    { <<Field(<<65>>, CharC, 2)>>,
      <<Field(<<65>>, CharC, 1), Field(<<66>>, CharL, 1)>>,
      <<Field(<<66>>, CharL, 2)>>,
      <<Field(<<65>>, CharC, 1), Field(<<65>>, CharL, 1)>> }

Corruptions ==
    {"none", "terminator", "recordLength", "version", "negativeCount",
     "truncated"}

MakeFile(fields, flags, corruption) ==
    LET n == Len(flags)
        computed == calculateRecordLengthInBytes(fields)
        headerLength == HeaderSize + DescriptorSize * Len(fields) + 1
    IN  HeaderBytes(IF corruption = "version" THEN 49 ELSE 3,
                    IF corruption = "negativeCount" THEN -1 ELSE n,
                    headerLength,
                    IF corruption = "recordLength" THEN computed + 1
                    ELSE computed)
        \o TableBytes(fields)
        \o <<IF corruption = "terminator" THEN 0 ELSE Terminator>>
        \o RecordsBytes(fields, flags,
                        IF corruption = "truncated" /\ n > 0 THEN n - 1 ELSE n)

FlagSeqs(max) == UNION {[1..n -> {Space, DeletedFlag}] : n \in 0..max}

SmallFiles ==
    {MakeFile(fields, flags, corruption) :
        fields \in Schemas, flags \in FlagSeqs(MaxRecords),
        corruption \in Corruptions}

\* files that do not fit one iterator batch or one window; every third
\* record is deleted
LargeFlags(n) == [i \in 1..n |-> IF i % 3 = 0 THEN DeletedFlag ELSE Space]

LargeFiles ==
    {MakeFile(fields, LargeFlags(IterBatch + ExtraRecords), "none") :
        fields \in Schemas}
    \cup {MakeFile(<<Field(<<65>>, CharC, 1)>>,
                   LargeFlags(WindowSize + ExtraRecords), "none")}

(***************************************************************************)
(* Files with memo fields and their memo files, and files with a field of *)
(* a type that has no case.                                                *)
(***************************************************************************)
RECURSIVE Concat(_)
Concat(seqs) == IF seqs = <<>> THEN <<>> ELSE Head(seqs) \o Concat(Tail(seqs))

\* n as 4 big-endian bytes
BEBytes(n) == [i \in 1..4 |-> (n \div Pow256(4 - i)) % 256]

\* a file of the given version whose raw records are given byte by byte
RawFile(version, fields, records) ==
    HeaderBytes(version, Len(records),
                HeaderSize + DescriptorSize * Len(fields) + 1,
                calculateRecordLengthInBytes(fields))
    \o TableBytes(fields) \o <<Terminator>> \o Concat(records)

\* a memo field without a pointer: all spaces
Blank == -1

MemoFieldSize(version) == IF version = 48 THEN 4 ELSE 10

\* the bytes of a memo field that points to block `pointer`
PointerBytes(version, pointer) ==
    IF version = 48 THEN LEBytes(pointer, 4)
    ELSE IF pointer = Blank THEN [k \in 1..10 |-> Space]
    ELSE [k \in 1..9 |-> Space] \o <<48 + pointer>>

\* A: C(1), M: M
MemoSchema(version) ==
    <<Field(<<65>>, CharC, 1), Field(<<77>>, CharM, MemoFieldSize(version))>>

MemoRecord(version, flag, i, pointer) ==
    <<flag, 96 + i>> \o PointerBytes(version, pointer)

\* the block size the memo files of versions 0x30, 0xf5 and 0x8b state
SmallBlock == 16

\* a payload one byte longer than a block; its bytes 8 and 9, the last of
\* the first block and the first of the next, are the UTF-8 bytes of U+00E9
Payload ==
    [k \in 1..(SmallBlock + 1) |->
        IF k = 8 THEN 195 ELSE IF k = 9 THEN 169 ELSE 96 + k]

\* .fpt: block size at offset 6, then block 1 = type tag, length, payload
FoxMemo(typeTag, declared, payload) ==
    Zeros(6) \o <<0, SmallBlock>> \o Zeros(SmallBlock - 8)
    \o BEBytes(typeTag) \o BEBytes(declared) \o payload

\* dBase IV .dbt: block size at offset 4, then block 1 = marker, length
\* (header included), payload
Dbase4Memo(declared, payload) ==
    Zeros(4) \o BEBytes(SmallBlock) \o Zeros(SmallBlock - 8)
    \o <<255, 255, 8, 0>> \o LEBytes(declared + 8, 4) \o payload

\* the same with four zero bytes where the marker would be
Dbase4MemoUnmarked(declared, payload) ==
    Zeros(4) \o BEBytes(SmallBlock) \o Zeros(SmallBlock - 8)
    \o Zeros(4) \o LEBytes(declared + 8, 4) \o payload

\* the same with blocks of 512 bytes and the block size stored little-endian
Dbase4MemoLE(declared, payload) ==
    Zeros(4) \o LEBytes(DefaultBlockSize, 4) \o Zeros(DefaultBlockSize - 8)
    \o <<255, 255, 8, 0>> \o LEBytes(declared + 8, 4) \o payload

\* dBase III .dbt: block 1 = text up to 0x1a
Dbase3Memo(text) == Zeros(DefaultBlockSize) \o text \o <<MemoTerminator>>

MemoKinds == {"none", "text", "binary", "truncated", "short", "littleEndian"}

MemoFile(version, kind) ==
    IF kind = "none" THEN NoMemoData
    ELSE IF kind = "short" THEN Zeros(4)
    ELSE IF version \in {48, 245}
    THEN FoxMemo(IF kind = "binary" THEN 2 ELSE TextMemo, Len(Payload),
                 IF kind = "truncated" THEN SubSeq(Payload, 1, SmallBlock)
                 ELSE Payload)
    ELSE IF version = 139 /\ kind = "binary"
    THEN Dbase4MemoUnmarked(Len(Payload), Payload)
    ELSE IF version = 139 /\ kind = "littleEndian"
    THEN Dbase4MemoLE(Len(Payload), Payload)
    ELSE IF version = 139
    THEN Dbase4Memo(Len(Payload),
                    IF kind = "truncated" THEN SubSeq(Payload, 1, SmallBlock)
                    ELSE Payload)
    ELSE Dbase3Memo(IF kind = "truncated" THEN <<>>
                    ELSE <<97, 13, 10, 98, 10>>)

MemoVersions == {48, 245, 139, 131}

\* A: C(1), X: X(2), B: C(1) / B: L(2), X: X(1), A: C(1) /
\* A: C(1), B: C(1), A: L(1), B: X(1), both names twice
TypeSchemas ==
    { <<Field(<<65>>, CharC, 1), Field(<<88>>, CharX, 2),
        Field(<<66>>, CharC, 1)>>,
      <<Field(<<66>>, CharL, 2), Field(<<88>>, CharX, 1),
        Field(<<65>>, CharC, 1)>>,
      <<Field(<<65>>, CharC, 1), Field(<<66>>, CharC, 1),
        Field(<<65>>, CharL, 1), Field(<<66>>, CharX, 1)>> }

TypeInputs ==
    {[data |-> MakeFile(fields, flags, "none"), memoData |-> NoMemoData] :
        fields \in TypeSchemas, flags \in FlagSeqs(MaxRecords)}

\* two records, the first deleted or not, with their pointers
MemoInputs ==
    {[data |-> RawFile(version, MemoSchema(version),
                       <<MemoRecord(version, flag, 1, p),
                         MemoRecord(version, Space, 2, q)>>),
      memoData |-> MemoFile(version, kind)] :
        version \in MemoVersions, flag \in {Space, DeletedFlag},
        p \in {0, 1, 9, Blank}, q \in {0, 1}, kind \in MemoKinds}

\* the normalised open options
Options ==
    [readMode : {"strict", "loose"}, includeDeletedRecords : BOOLEAN,
     encoding : {"latin1"}]

\* the maxCount arguments of direct readRecords calls
MaxCounts == {0, 1, 2, DefaultMaxCount}

(***************************************************************************)
(* State                                                                   *)
(***************************************************************************)
VARIABLES
    data,        \* the ArrayBuffer handed to open
    memoData,    \* the memo ArrayBuffer handed to open, or NoMemoData
    options,     \* the (normalised) options handed to open
    status,      \* "unopened", "open", or "failed" when open threw
    openError,   \* which error open threw, "none" when it returned
    dbf,         \* the DBFFile handle
    last,        \* the last readRecords call: its argument and its outcome
    out,         \* every batch returned by readRecords so far, concatenated
    threw,       \* a readRecords call on the handle has thrown
    calls,       \* direct readRecords calls made
    it_pc,       \* the iterator: "idle", "running", "done", "failed"
    it_buf,      \* records of the fetched batch not yet yielded
    it_out,      \* records the running (or last) iteration has yielded
    it_tick,     \* parity of the batch reads the iterator has made
    iterations,  \* iterations started
    jt_pc,       \* a second iterator of the same handle, as it_pc
    jt_buf,      \* records of its fetched batch not yet yielded
    jt_out       \* records it has yielded

\* the second iterator's state
jt == <<jt_pc, jt_buf, jt_out>>

vars == <<data, memoData, options, status, openError, dbf, last, out, threw, calls,
          it_pc, it_buf, it_out, it_tick, iterations, jt>>

NoCall ==
    [op |-> "none", maxCount |-> 0, before |-> 0, ok |-> TRUE,
     records |-> <<>>, skipped |-> 0]

InitOf(inputs, opts) ==
    /\ \E input \in inputs : data = input.data /\ memoData = input.memoData
    /\ options \in opts
    /\ status = "unopened"
    /\ openError = "none"
    /\ dbf = NewDBFFile
    /\ last = NoCall
    /\ out = <<>>
    /\ threw = FALSE
    /\ calls = 0
    /\ it_pc = "idle"
    /\ it_buf = <<>>
    /\ it_out = <<>>
    /\ it_tick = 0
    /\ iterations = 0
    /\ jt_pc = "idle"
    /\ jt_buf = <<>>
    /\ jt_out = <<>>

\* files opened without a memo file
InitWith(files) ==
    InitOf({[data |-> file, memoData |-> NoMemoData] : file \in files}, Options)

\* DBFFile.open(data, memoData, options)
Open ==
    /\ status = "unopened"
    /\ LET r == openDBF(data, memoData, options)
       IN  /\ status' = IF r.err = "none" THEN "open" ELSE "failed"
           /\ openError' = r.err
           /\ dbf' = r.dbf
    /\ UNCHANGED <<jt, data, memoData, options, last, out, threw, calls, it_pc, it_buf,
                   it_out, it_tick, iterations>>

\* a read that also takes the records it returned off the handle's count
CallReadRecords_Consuming(op, maxCount, r) ==
    /\ dbf' = [dbf EXCEPT !._recordsRead = r.recordsRead,
                          !.recordCount = @ - Len(r.records)]
    /\ last' = [op |-> op, maxCount |-> maxCount, before |-> dbf._recordsRead,
                ok |-> r.ok, records |-> r.records, skipped |-> r.skipped]
    /\ out' = out \o r.records
    /\ threw' = (threw \/ ~r.ok)

\* the effect of one readRecords(maxCount) call on the handle and the ghosts
CallReadRecords(op, maxCount, r) ==
    /\ dbf' = [dbf EXCEPT !._recordsRead = r.recordsRead]
    /\ last' = [op |-> op, maxCount |-> maxCount, before |-> dbf._recordsRead,
                ok |-> r.ok, records |-> r.records, skipped |-> r.skipped]
    /\ out' = out \o r.records
    /\ threw' = (threw \/ ~r.ok)

\* dbf.readRecords(maxCount), called directly
ReadRecords(maxCount) ==
    /\ status = "open"
    /\ calls < MaxCalls
    /\ CallReadRecords("read", maxCount,
                       readRecordsFromDBF(dbf, data, maxCount))
    /\ calls' = calls + 1
    /\ UNCHANGED <<jt, data, memoData, options, status, openError, it_pc, it_buf, it_out,
                   it_tick, iterations>>

\* an iterator that rewinds the handle when it starts
IterStart_Rewinding ==
    /\ status = "open"
    /\ it_pc # "running"
    /\ iterations < MaxIterations
    /\ it_pc' = "running"
    /\ it_buf' = <<>>
    /\ it_out' = <<>>
    /\ iterations' = iterations + 1
    /\ dbf' = [dbf EXCEPT !._recordsRead = 0]
    /\ UNCHANGED <<jt, data, memoData, options, status, openError, last, out, threw,
                   calls, it_tick>>

\* dbf[Symbol.asyncIterator](): a new iteration over the handle
IterStart ==
    /\ status = "open"
    /\ it_pc # "running"
    /\ iterations < MaxIterations
    /\ it_pc' = "running"
    /\ it_buf' = <<>>
    /\ it_out' = <<>>
    /\ iterations' = iterations + 1
    /\ UNCHANGED <<jt, data, memoData, options, status, openError, dbf, last, out, threw,
                   calls, it_tick>>

\* while (this._recordsRead !== this.recordCount)
IterLoopCondition == dbf._recordsRead # dbf.recordCount

\* the loop body up to its first yield: await this.readRecords(100)
IterFetch ==
    /\ it_pc = "running"
    /\ it_buf = <<>>
    /\ IterLoopCondition
    /\ CallReadRecords("fetch", IterBatch,
                       readRecordsFromDBF(dbf, data, IterBatch))
    /\ it_pc' = IF last'.ok THEN "running" ELSE "failed"
    /\ it_buf' = last'.records
    /\ it_tick' = 1 - it_tick
    /\ UNCHANGED <<jt, data, memoData, options, status, openError, calls, it_out,
                   iterations>>

\* yield*: the next record of the batch goes to the consumer
IterYield ==
    /\ it_pc = "running"
    /\ it_buf # <<>>
    /\ it_out' = Append(it_out, Head(it_buf))
    /\ it_buf' = Tail(it_buf)
    /\ UNCHANGED <<jt, data, memoData, options, status, openError, dbf, last, out, threw,
                   calls, it_pc, it_tick, iterations>>

\* the loop condition is false: the generator returns
IterFinish ==
    /\ it_pc = "running"
    /\ it_buf = <<>>
    /\ ~IterLoopCondition
    /\ it_pc' = "done"
    /\ UNCHANGED <<jt, data, memoData, options, status, openError, dbf, last, out, threw,
                   calls, it_buf, it_out, it_tick, iterations>>

Next ==
    \/ Open
    \/ \E maxCount \in MaxCounts : ReadRecords(maxCount)
    \/ IterStart
    \/ IterFetch
    \/ IterYield
    \/ IterFinish

Init == InitWith(SmallFiles)

\* small files; direct calls and iterations of one handle interleave freely
Spec == Init /\ [][Next]_vars

(***************************************************************************)
(* Large files.  The caller uses a handle in one way: it makes direct      *)
(* readRecords calls, or it iterates.                                      *)
(***************************************************************************)
InitLarge == InitWith(LargeFiles)

NextLarge ==
    \/ Open
    \/ \E maxCount \in MaxCounts \cup {WindowSize + 1} :
           iterations = 0 /\ ReadRecords(maxCount)
    \/ (calls = 0 /\ IterStart)
    \/ IterFetch
    \/ IterYield
    \/ IterFinish

SpecLarge == InitLarge /\ [][NextLarge]_vars

(***************************************************************************)
(* Files with memo fields or fields of a type without a case, read under   *)
(* either encoding; the caller makes direct calls, or iterates.            *)
(***************************************************************************)
MemoOptions ==
    [readMode : {"strict", "loose"}, includeDeletedRecords : BOOLEAN,
     encoding : {"latin1", "utf-8"}]

InitMemo == InitOf(MemoInputs \cup TypeInputs, MemoOptions)

SpecMemo == InitMemo /\ [][NextLarge]_vars

(***************************************************************************)
(* Two iterators of one handle, started once each, their steps and direct  *)
(* readRecords calls interleaved freely; the consumer of the first may     *)
(* break out of its loop after any record.  Every step is one of the code's *)
(* synchronous stretches: readRecordsFromDBF has no await in it, so a      *)
(* batch read is one step, and a yield is another.                         *)
(***************************************************************************)
\* dbf[Symbol.asyncIterator]() a second time
Iter2Start ==
    /\ status = "open"
    /\ jt_pc = "idle"
    /\ jt_pc' = "running"
    /\ jt_buf' = <<>>
    /\ jt_out' = <<>>
    /\ UNCHANGED <<data, memoData, options, status, openError, dbf, last, out,
                   threw, calls, it_pc, it_buf, it_out, it_tick, iterations>>

\* its loop body up to the first yield: await this.readRecords(100)
Iter2Fetch ==
    /\ jt_pc = "running"
    /\ jt_buf = <<>>
    /\ IterLoopCondition
    /\ CallReadRecords("fetch", IterBatch,
                       readRecordsFromDBF(dbf, data, IterBatch))
    /\ jt_pc' = IF last'.ok THEN "running" ELSE "failed"
    /\ jt_buf' = last'.records
    /\ UNCHANGED <<data, memoData, options, status, openError, calls, it_pc,
                   it_buf, it_out, it_tick, iterations, jt_out>>

\* its yield*
Iter2Yield ==
    /\ jt_pc = "running"
    /\ jt_buf # <<>>
    /\ jt_out' = Append(jt_out, Head(jt_buf))
    /\ jt_buf' = Tail(jt_buf)
    /\ UNCHANGED <<data, memoData, options, status, openError, dbf, last, out,
                   threw, calls, it_pc, it_buf, it_out, it_tick, iterations,
                   jt_pc>>

\* its return
Iter2Finish ==
    /\ jt_pc = "running"
    /\ jt_buf = <<>>
    /\ ~IterLoopCondition
    /\ jt_pc' = "done"
    /\ UNCHANGED <<data, memoData, options, status, openError, dbf, last, out,
                   threw, calls, it_pc, it_buf, it_out, it_tick, iterations,
                   jt_buf, jt_out>>

\* a break that hands the unconsumed records back to the handle
BreakCursor_GivesBack(recordsRead, unconsumed) == recordsRead - Len(unconsumed)

\* a break does not touch the handle
BreakCursor(recordsRead, unconsumed) == recordsRead

\* the consumer leaves its for await loop (break) while the generator is
\* suspended at a yield: the generator returns, and the records of the batch
\* it had not yielded, kept here in it_buf, go nowhere
IterBreak ==
    /\ it_pc = "running"
    /\ it_out # <<>>
    /\ it_pc' = "abandoned"
    /\ dbf' = [dbf EXCEPT !._recordsRead = BreakCursor(@, it_buf)]
    /\ UNCHANGED <<jt, data, memoData, options, status, openError, last, out,
                   threw, calls, it_buf, it_out, it_tick, iterations>>

\* the small files and the files of one record more than a batch
PairFiles ==
    SmallFiles
    \cup {MakeFile(fields, LargeFlags(IterBatch + ExtraRecords), "none") :
             fields \in Schemas}

InitPair == InitWith(PairFiles)

NextPair ==
    \/ Open
    \/ \E maxCount \in {1, IterBatch} : calls < 1 /\ ReadRecords(maxCount)
    \/ (iterations = 0 /\ IterStart)
    \/ IterFetch
    \/ IterYield
    \/ IterFinish
    \/ IterBreak
    \/ Iter2Start
    \/ Iter2Fetch
    \/ Iter2Yield
    \/ Iter2Finish

SpecPair == InitPair /\ [][NextPair]_vars

(***************************************************************************)
(* The iterator's steps are taken as long as they can be: the generator    *)
(* runs on when its await settles, and a for await loop asks for the next  *)
(* record until the generator returns or throws.                           *)
(***************************************************************************)
\* the guard of IterFetch; a fetch always changes it_tick, so the guard is
\* ENABLED <<IterFetch>>_vars
IterFetchEnabled == it_pc = "running" /\ it_buf = <<>> /\ IterLoopCondition

\* WF_vars(IterFetch), with its ENABLED written as the guard
FairIterFetch == []<>(~IterFetchEnabled) \/ []<><<IterFetch>>_vars

FairSpec ==
    /\ Init
    /\ [][Next]_vars
    /\ FairIterFetch
    /\ WF_vars(IterYield)
    /\ WF_vars(IterFinish)


(***************************************************************************)
(* The raw layout of the file, read off the data and the opened handle     *)
(***************************************************************************)
Cursor == dbf._recordsRead

IsOpen == status = "open"

\* the deletion flag of raw record i (0-based)
RawFlag(i) == ByteAt(data, dbf._headerLength + i * dbf._recordLength)

RawDeleted(i) == RawFlag(i) = DeletedFlag

\* raw records from..to-1 that a read returns rather than skips
NonSkipped(from, to) ==
    {i \in from..(to - 1) : ~(RawDeleted(i) /\ ~dbf._includeDeletedRecords)}

\* the descriptor table as it lies in the data, whatever the read mode
Table ==
    ParseFields(data, GetInt16LE(data, 8), "loose", ByteAt(data, 0),
                HeaderSize, <<>>)

\* a valid file: strict mode opens it, and its data holds recordCount
\* (not negative) whole records
ValidFile ==
    LET r == openDBF(data, memoData, [options EXCEPT !.readMode = "strict"])
    IN  /\ r.err = "none"
        /\ r.dbf.recordCount >= 0
        /\ r.dbf._headerLength + r.dbf.recordCount * r.dbf._recordLength
              <= Len(data)

\* a freshly opened handle over the same bytes and options
Fresh == openDBF(data, memoData, options).dbf

\* one readRecords() call on a fresh handle
OneShot == readRecordsFromDBF(Fresh, data, DefaultMaxCount)

(***************************************************************************)
(* C1: with includeDeletedRecords = false, once a handle on a valid file   *)
(* has been read to exhaustion, the records returned by all readRecords    *)
(* calls plus the raw records flagged 0x2a number recordCount.             *)
(***************************************************************************)
C1_ReturnedPlusDeleted ==
    (IsOpen /\ ValidFile /\ ~dbf._includeDeletedRecords
        /\ Cursor = dbf.recordCount)
    => Len(out) + Cardinality({i \in 0..(dbf.recordCount - 1) : RawDeleted(i)})
          = dbf.recordCount

C1_Witness ==
    /\ IsOpen /\ ValidFile /\ ~dbf._includeDeletedRecords
    /\ Cursor = dbf.recordCount
    /\ calls >= 2
    /\ Len(out) >= 1
    /\ \E i \in 0..(dbf.recordCount - 1) : RawDeleted(i)


(***************************************************************************)
(* C2: a readRecords(maxCount) call that returns, returns exactly          *)
(* min(maxCount, the non-skipped raw records from the cursor to the end)   *)
(* records: never more than maxCount, and fewer than maxCount only if the  *)
(* cursor equals recordCount when it returns.                              *)
(***************************************************************************)
C2_ReturnsMinOfMaxCountAndRest ==
    (IsOpen /\ last.op # "none" /\ last.ok)
    => /\ Len(last.records)
            = Min(last.maxCount,
                  Cardinality(NonSkipped(last.before, dbf.recordCount)))
       /\ Len(last.records) <= last.maxCount
       /\ (Len(last.records) < last.maxCount => Cursor = dbf.recordCount)

(***************************************************************************)
(* C3: a readRecords call that returns has advanced the cursor by the      *)
(* number of raw records it scanned: the records it returned plus the      *)
(* deleted records it skipped.                                             *)
(***************************************************************************)
C3_CursorAdvancesByScanned ==
    (IsOpen /\ last.op # "none" /\ last.ok)
    => Cursor - last.before = Len(last.records) + last.skipped

C3_Witness ==
    /\ IsOpen /\ last.op = "read" /\ last.ok
    /\ last.skipped >= 1
    /\ Len(last.records) >= 1

(***************************************************************************)
(* C4: paging is invisible.  When the calls made on a handle (whatever     *)
(* their maxCount) have brought the cursor to recordCount, the batches     *)
(* they returned, concatenated, are the result of one readRecords() call   *)
(* on a fresh handle over the same bytes.                                  *)
(***************************************************************************)
C4_PagingInvisible ==
    (IsOpen /\ ~threw /\ Cursor = dbf.recordCount /\ OneShot.ok)
    => out = OneShot.records


(***************************************************************************)
(* C5: the async iterator is finite.  An iteration of any handle open      *)
(* returns comes to an end after finitely many batch reads: the generator  *)
(* returns with the cursor at recordCount (or the batch read throws).      *)
(***************************************************************************)
C5_IterationTerminates ==
    (it_pc = "running")
        ~> \/ (it_pc = "done" /\ Cursor = dbf.recordCount)
           \/ it_pc = "failed"

(***************************************************************************)
(* C6: the handle is forward-only and not restartable.  Once the cursor    *)
(* is at recordCount nothing moves it, a further readRecords call returns  *)
(* an empty array, and an iteration yields no further record.              *)
(***************************************************************************)
C6_NotRestartable ==
    [][(IsOpen /\ Cursor = dbf.recordCount)
        => /\ dbf' = dbf
           /\ out' = out
           /\ (last' # last => (last'.ok /\ last'.records = <<>>))
           /\ (it_buf = <<>> => (it_buf' = <<>> /\ it_out' \in {it_out, <<>>}))
      ]_vars

C6_Witness ==
    /\ IsOpen /\ Cursor = dbf.recordCount /\ dbf.recordCount > 0
    /\ last.op = "read" /\ last.before = dbf.recordCount
    /\ last.maxCount > 0 /\ last.records = <<>>
    /\ iterations = 2 /\ it_pc = "done" /\ it_out = <<>>

(***************************************************************************)
(* C7: iterating a freshly opened handle to completion yields the records  *)
(* of one readRecords() call on a freshly opened handle over the same      *)
(* bytes and options, in the same order.                                   *)
(***************************************************************************)
C7_IterationEqualsOneShot ==
    (IsOpen /\ calls = 0 /\ iterations = 1 /\ it_pc = "done" /\ OneShot.ok)
    => it_out = OneShot.records

(***************************************************************************)
(* C8: with includeDeletedRecords = true every raw record is returned      *)
(* (recordCount records once the handle is exhausted) and a returned       *)
(* record has the DELETED marker exactly if its deletion byte is 0x2a;     *)
(* with includeDeletedRecords = false no returned record has the marker;   *)
(* the marker is never a field-name key.                                   *)
(***************************************************************************)
C8_DeletedMarker ==
    IsOpen
    => /\ (dbf._includeDeletedRecords /\ ~threw)
            => /\ Len(out) = Cursor
               /\ \A k \in 1..Len(out) :
                     (DELETED \in DOMAIN out[k]) <=> RawDeleted(k - 1)
       /\ ~dbf._includeDeletedRecords
            => \A k \in 1..Len(out) : DELETED \notin DOMAIN out[k]
       /\ \A j \in 1..Len(dbf.fields) : StringKey(dbf.fields[j].name) # DELETED

(***************************************************************************)
(* C9: open fails, in strict and in loose mode, whenever the byte after    *)
(* the field-descriptor table is not 0x0d; no handle is returned.          *)
(***************************************************************************)
C9_TerminatorRequired ==
    (status # "unopened" /\ ByteAt(data, Table.offset) # Terminator)
    => (status = "failed" /\ dbf = NewDBFFile)

C9_Witness ==
    /\ status = "failed" /\ openError = "terminator"
    /\ options.readMode = "loose"
    /\ ByteAt(data, Table.offset) # Terminator

(***************************************************************************)
(* C10: when the header's recordLength differs from 1 + the sum of the     *)
(* field sizes, open fails in strict mode and succeeds in loose mode with  *)
(* the handle's record length set to the computed sum; every handle open   *)
(* returns has _recordLength = 1 + the sum of its field sizes.             *)
(***************************************************************************)
StatedRecordLength == GetInt16LE(data, 10)

ComputedRecordLength == calculateRecordLengthInBytes(Table.fields)

C10_RecordLength ==
    status # "unopened"
    => /\ IsOpen => dbf._recordLength = calculateRecordLengthInBytes(dbf.fields)
       /\ (StatedRecordLength # ComputedRecordLength
             /\ options.readMode = "strict") => status = "failed"
       /\ (StatedRecordLength # ComputedRecordLength
             /\ options.readMode = "loose"
             /\ ByteAt(data, Table.offset) = Terminator)
            => (IsOpen /\ dbf._recordLength = ComputedRecordLength)

C10_Witness ==
    /\ IsOpen /\ options.readMode = "loose"
    /\ StatedRecordLength # dbf._recordLength
    /\ dbf._recordLength = ComputedRecordLength

(***************************************************************************)
(* The format errors of a file, read off its bytes                         *)
(***************************************************************************)
InvalidVersion == ByteAt(data, 0) \notin FileVersions

DuplicateName ==
    \E i, j \in 1..Len(Table.fields) :
        i < j /\ Table.fields[i].name = Table.fields[j].name

MissingTerminator == ByteAt(data, Table.offset) # Terminator

RecordLengthMismatch == StatedRecordLength # ComputedRecordLength

(***************************************************************************)
(* C11 as stated: an invalid version tag, a duplicate field name, a       *)
(* missing terminator byte and a record-length mismatch each make open     *)
(* fail, whatever the read mode.                                           *)
(***************************************************************************)
C11_FormatErrorsAlwaysFatal ==
    (status # "unopened"
        /\ (InvalidVersion \/ DuplicateName \/ MissingTerminator
            \/ RecordLengthMismatch))
    => status = "failed"

(***************************************************************************)
(* C11 amended: a missing terminator byte makes open fail in both read     *)
(* modes; an invalid version tag, a duplicate field name and a             *)
(* record-length mismatch make open fail in strict mode, and in loose      *)
(* mode none of the three makes it fail.                                   *)
(***************************************************************************)
C11_FormatErrorsFatalInStrictMode ==
    status # "unopened"
    => /\ MissingTerminator => status = "failed"
       /\ (options.readMode = "strict"
             /\ (InvalidVersion \/ DuplicateName \/ RecordLengthMismatch))
            => status = "failed"
       /\ (options.readMode = "loose" /\ ~MissingTerminator) => IsOpen

C11_Witness ==
    /\ status = "failed" /\ openError = "duplicate"
    /\ options.readMode = "strict"
    /\ DuplicateName /\ ~InvalidVersion /\ ~MissingTerminator
    /\ ~RecordLengthMismatch

(***************************************************************************)
(* C12: in loose mode the version check and the descriptor checks (the     *)
(* duplicate-name check too) are skipped: open succeeds for any version    *)
(* tag and any descriptors when the 0x0d terminator is there, and the      *)
(* handle has the version and the descriptors as they lie in the file; in  *)
(* strict mode a version tag outside {0x03, 0x83, 0x8b, 0x30, 0xf5} makes  *)
(* open fail.                                                              *)
(***************************************************************************)
C12_LooseSkipsValidation ==
    status # "unopened"
    => /\ (options.readMode = "loose" /\ ~MissingTerminator)
            => /\ IsOpen
               /\ dbf.fields = Table.fields
               /\ dbf._version = ByteAt(data, 0)
       /\ (options.readMode = "strict" /\ InvalidVersion)
            => (status = "failed" /\ openError = "version")

C12_Witness ==
    /\ IsOpen /\ options.readMode = "loose"
    /\ InvalidVersion /\ DuplicateName

(***************************************************************************)
(* The records as they lie in the file: raw record i (0-based) starts at   *)
(* headerLength + i * recordLength, and its field j at 1 + the sizes of    *)
(* the fields before it.                                                   *)
(***************************************************************************)
\* the types the switch of readRecordsFromDBF has a case for: C N F L T D B I M
SwitchTypes == {67, 78, 70, 76, 84, 68, 66, 73, 77}

Unsupported(field) == field.type \notin SwitchTypes

HasUnsupportedField == \E j \in 1..Len(dbf.fields) : Unsupported(dbf.fields[j])

RawFieldOffset(i, j) ==
    dbf._headerLength + i * dbf._recordLength + 1
    + SumSizes(SubSeq(dbf.fields, 1, j - 1))

\* field j of raw record i decoded where it lies
AlignedDecode(i, j) ==
    DecodeField(dbf, data, RawFieldOffset(i, j), dbf.fields[j])

\* the raw index of the k-th record (k from 1) that a read from `from`
\* does not skip
NthNonSkipped(from, k) ==
    LET rest == NonSkipped(from, dbf.recordCount)
    IN  CHOOSE i \in rest : Cardinality({x \in rest : x < i}) = k - 1

\* the handle as strict mode would have it
StrictHandle(recordsRead) ==
    [dbf EXCEPT !._readMode = "strict", !._recordsRead = recordsRead]

(***************************************************************************)
(* C13: a field of a type without a case makes readRecords fail in strict  *)
(* mode as soon as a record is decoded; in loose mode the field is absent  *)
(* from every returned record and every other field of the record has the  *)
(* value decoded from where the field lies in the file (the field's size   *)
(* bytes are skipped).                                                     *)
(***************************************************************************)
C13_UnsupportedType ==
    (IsOpen /\ HasUnsupportedField /\ dbf._readMode = "loose"
        /\ last.op # "none" /\ last.ok)
    => /\ Len(last.records)
              <= Cardinality(NonSkipped(last.before, dbf.recordCount))
       /\ \A k \in 1..Len(last.records) :
             \A j \in 1..Len(dbf.fields) :
                 LET key == StringKey(dbf.fields[j].name)
                 IN  IF Unsupported(dbf.fields[j])
                     THEN key \notin DOMAIN last.records[k]
                     ELSE /\ key \in DOMAIN last.records[k]
                          /\ last.records[k][key]
                               = AlignedDecode(NthNonSkipped(last.before, k),
                                               j).value
       /\ Len(last.records) >= 1
            => ~readRecordsFromDBF(StrictHandle(last.before), data,
                                   last.maxCount).ok

\* the memo pointer that raw record i holds in field j
PointerAt(i, j) ==
    BlockIndex(dbf, data, RawFieldOffset(i, j), dbf.fields[j].size,
               getEncoding(dbf._encoding, dbf.fields[j]))

\* field j is a memo field and raw record i holds a non-zero pointer in it
HasPointer(i, j) ==
    /\ dbf.fields[j].type = CharM
    /\ PointerAt(i, j).ok
    /\ ~PointerAt(i, j).nan
    /\ PointerAt(i, j).value # 0

\* the raw records a read of maxCount records from `from` decodes
ReadRange(from, maxCount) ==
    {NthNonSkipped(from, k) :
        k \in 1..Min(maxCount, Cardinality(NonSkipped(from, dbf.recordCount)))}

(***************************************************************************)
(* C14: without a memo buffer, a read that decodes a record holding a      *)
(* non-zero memo pointer fails in strict mode; in loose mode the read      *)
(* succeeds and the memo field of such a record has the value null.        *)
(***************************************************************************)
C14_MissingMemoIsNull ==
    (IsOpen /\ memoData = NoMemoData /\ last.op # "none")
    => /\ (dbf._readMode = "strict"
             /\ \E i \in ReadRange(last.before, last.maxCount) :
                   \E j \in 1..Len(dbf.fields) : HasPointer(i, j))
          => ~last.ok
       /\ (dbf._readMode = "loose" /\ last.ok)
          => \A k \in 1..Len(last.records) :
                \A j \in 1..Len(dbf.fields) :
                    HasPointer(NthNonSkipped(last.before, k), j)
                    => LET key == StringKey(dbf.fields[j].name)
                       IN  /\ key \in DOMAIN last.records[k]
                           /\ last.records[k][key] = NullValue

\* the length a memo block declares for its payload, never below 0
DeclaredLength(blockOffset) ==
    LET stated == IF dbf._version = 139
                  THEN GetUint32LE(memoData, blockOffset + 4) - 8
                  ELSE GetInt32BE(memoData, blockOffset + 4)
    IN  IF stated < 0 THEN 0 ELSE stated

\* every byte that resolving the memo at block p reads lies in the memo
\* buffer: the block's first byte, its tag and length, its declared payload
MemoInRange(p) ==
    LET blockOffset == p * MemoBlockSize(dbf).size
        size == Len(memoData)
    IN  /\ 0 <= blockOffset
        /\ blockOffset < size
        /\ dbf._version = 139
             => /\ blockOffset + 8 <= size
                /\ blockOffset + 8 + DeclaredLength(blockOffset) <= size
        /\ dbf._version \in {48, 245}
             => /\ blockOffset + 4 <= size
                /\ GetInt32BE(memoData, blockOffset) = TextMemo
                     => /\ blockOffset + 8 <= size
                        /\ blockOffset + 8 + DeclaredLength(blockOffset)
                             <= size

\* a handle with a memo buffer whose block size could be read
MemoReadable ==
    /\ IsOpen
    /\ memoData # NoMemoData
    /\ dbf._version \in MemoVersions
    /\ MemoBlockSize(dbf).ok
    /\ MemoBlockSize(dbf).size > 0

EmptyString == StringValue(<<>>)

(***************************************************************************)
(* C15: a read that decodes a record whose memo lies outside the memo      *)
(* buffer fails in strict mode; in loose mode the read succeeds and the    *)
(* field is the empty string; and a non-empty memo value always comes from *)
(* a memo that lies wholly inside the buffer.                              *)
(***************************************************************************)
C15_MemoBoundsChecked ==
    (MemoReadable /\ last.op # "none")
    => /\ (dbf._readMode = "strict"
             /\ \E i \in ReadRange(last.before, last.maxCount) :
                   \E j \in 1..Len(dbf.fields) :
                       HasPointer(i, j) /\ ~MemoInRange(PointerAt(i, j).value))
          => ~last.ok
       /\ dbf._readMode = "loose" => last.ok
       /\ last.ok
          => \A k \in 1..Len(last.records) :
                \A j \in 1..Len(dbf.fields) :
                    LET i == NthNonSkipped(last.before, k)
                        key == StringKey(dbf.fields[j].name)
                    IN  HasPointer(i, j)
                        => /\ key \in DOMAIN last.records[k]
                           /\ ~MemoInRange(PointerAt(i, j).value)
                                => last.records[k][key] = EmptyString
                           /\ last.records[k][key] # EmptyString
                                => MemoInRange(PointerAt(i, j).value)

\* raw record i points in field j at a block of the memo buffer whose four
\* tag bytes lie in the buffer and are not the tag of a text memo
BinaryMemo(i, j) ==
    /\ HasPointer(i, j)
    /\ LET blockOffset == PointerAt(i, j).value * MemoBlockSize(dbf).size
       IN  /\ 0 <= blockOffset
           /\ blockOffset + 4 <= Len(memoData)
           /\ GetInt32BE(memoData, blockOffset) # TextMemo

FoxProHandle == MemoReadable /\ dbf._version \in {48, 245}

(***************************************************************************)
(* C16: for versions 0x30 and 0xf5, in both read modes, a read whose       *)
(* records point only at memo blocks with a type tag other than 1 does not *)
(* fail, and the memo field of every returned record that points at such a *)
(* block is the empty string.                                              *)
(***************************************************************************)
C16_NonTextMemoIsEmpty ==
    (FoxProHandle /\ last.op # "none")
    => /\ (\A i \in ReadRange(last.before, last.maxCount) :
              \A j \in 1..Len(dbf.fields) :
                  HasPointer(i, j) => BinaryMemo(i, j))
          => last.ok
       /\ last.ok
          => \A k \in 1..Len(last.records) :
                \A j \in 1..Len(dbf.fields) :
                    BinaryMemo(NthNonSkipped(last.before, k), j)
                    => LET key == StringKey(dbf.fields[j].name)
                       IN  /\ key \in DOMAIN last.records[k]
                           /\ last.records[k][key] = EmptyString

\* a strict read has returned a record that points at a non-text block
C16_Witness ==
    /\ FoxProHandle
    /\ dbf._readMode = "strict"
    /\ last.op # "none"
    /\ last.ok
    /\ \E k \in 1..Len(last.records) :
          \E j \in 1..Len(dbf.fields) :
              BinaryMemo(NthNonSkipped(last.before, k), j)

\* raw record i points in field j at a text memo that lies in the buffer
TextMemoAt(i, j) ==
    /\ HasPointer(i, j)
    /\ MemoInRange(PointerAt(i, j).value)
    /\ GetInt32BE(memoData,
                  PointerAt(i, j).value * MemoBlockSize(dbf).size) = TextMemo

\* the declared number of bytes of the memo buffer from byte 8 of block p on
PayloadBytes(p) ==
    LET blockOffset == p * MemoBlockSize(dbf).size
    IN  [n \in 1..DeclaredLength(blockOffset) |->
            ByteAt(memoData, blockOffset + 8 + n - 1)]

(***************************************************************************)
(* C17: for versions 0x30 and 0xf5 a text memo is the decoding, done once  *)
(* over the whole, of the contiguous bytes of the declared big-endian      *)
(* length that start at byte 8 of its first block, also when they cross a  *)
(* block boundary: in a single-byte encoding the value has one character   *)
(* per declared byte.                                                      *)
(***************************************************************************)
C17_MemoIsContiguousPayload ==
    (FoxProHandle /\ last.op # "none" /\ last.ok)
    => \A k \in 1..Len(last.records) :
          \A j \in 1..Len(dbf.fields) :
              LET i == NthNonSkipped(last.before, k)
                  key == StringKey(dbf.fields[j].name)
                  encoding == getEncoding(dbf._encoding, dbf.fields[j])
              IN  TextMemoAt(i, j)
                  => /\ key \in DOMAIN last.records[k]
                     /\ last.records[k][key]
                          = StringValue(decodeBytes(
                                PayloadBytes(PointerAt(i, j).value), encoding))
                     /\ encoding = "latin1"
                          => last.records[k][key]
                               = StringValue(PayloadBytes(PointerAt(i, j).value))

\* a read has returned a memo one byte longer than a block, decoded as
\* UTF-8, with a two-byte character across the block boundary
C17_Witness ==
    /\ FoxProHandle
    /\ last.op # "none"
    /\ last.ok
    /\ dbf._encoding = "utf-8"
    /\ \E k \in 1..Len(last.records) :
          \E j \in 1..Len(dbf.fields) :
              LET i == NthNonSkipped(last.before, k)
              IN  /\ TextMemoAt(i, j)
                  /\ DeclaredLength(PointerAt(i, j).value
                                    * MemoBlockSize(dbf).size)
                       = MemoBlockSize(dbf).size + 1
                  /\ last.records[k][StringKey(dbf.fields[j].name)]
                       = StringValue(<<97, 98, 99, 100, 101, 102, 103, 233,
                                       106, 107, 108, 109, 110, 111, 112,
                                       113>>)

(***************************************************************************)
(* C18: no step changes the DBF buffer or the memo buffer, and a step of   *)
(* an open handle (readRecords, an iteration step) changes nothing of the  *)
(* handle but the cursor _recordsRead.                                     *)
(***************************************************************************)
C18_BuffersAndHandleReadOnly ==
    [][/\ data' = data
       /\ memoData' = memoData
       /\ IsOpen => dbf' = [dbf EXCEPT !._recordsRead = dbf'._recordsRead]]_vars

\* a handle with a memo buffer has read records and resolved a memo
C18_Witness ==
    /\ MemoReadable
    /\ dbf._memoData = memoData
    /\ last.op # "none"
    /\ last.ok
    /\ dbf._recordsRead > 0
    /\ \E k \in 1..Len(last.records) :
          \E j \in 1..Len(dbf.fields) :
              /\ HasPointer(NthNonSkipped(last.before, k), j)
              /\ last.records[k][StringKey(dbf.fields[j].name)] # EmptyString

(***************************************************************************)
(* C19: an open handle's cursor satisfies 0 <= _recordsRead <= recordCount *)
(* in every reachable state.                                               *)
(***************************************************************************)
C19_CursorWithinBounds ==
    IsOpen => (0 <= dbf._recordsRead /\ dbf._recordsRead <= dbf.recordCount)

(***************************************************************************)
(* C19: the cursor of an open handle never decreases.                      *)
(***************************************************************************)
C19_CursorMonotonic ==
    [][(IsOpen /\ status' = "open") => dbf'._recordsRead >= dbf._recordsRead]_vars

\* the data holds every record the header counts
HoldsAllRecords ==
    /\ dbf.recordCount >= 0
    /\ dbf._headerLength + dbf.recordCount * dbf._recordLength <= Len(data)

\* one pass of the record loop of handle h, entered at raw record i
RecordStep(h, i) ==
    ParseRecord(h,
                Slice(data, dbf._headerLength + i * dbf._recordLength,
                      Len(data)),
                [ok |-> TRUE, offset |-> 0, records |-> <<>>, skipped |-> 0])

\* some field of raw record i, decoded where it lies, throws
RecordThrows(i) ==
    \E j \in 1..Len(dbf.fields) : AlignedDecode(i, j).kind = "throw"

ValuedFields(i) ==
    {j \in 1..Len(dbf.fields) : AlignedDecode(i, j).kind = "value"}

\* the last field of raw record i that has a value and the key `key`
LastFieldNamed(i, key) ==
    CHOOSE j \in ValuedFields(i) :
        /\ StringKey(dbf.fields[j].name) = key
        /\ \A k \in ValuedFields(i) :
              StringKey(dbf.fields[k].name) = key => k <= j

\* raw record i decoded field by field from where each field lies
AlignedRecord(i) ==
    MarkDeleted([key \in {StringKey(dbf.fields[j].name) : j \in ValuedFields(i)}
                    |-> AlignedDecode(i, LastFieldNamed(i, key)).value],
                RawDeleted(i))

(***************************************************************************)
(* C21: in both read modes, a pass of the record loop that decodes a raw   *)
(* record consumes recordLength bytes, the flag and field.size bytes for   *)
(* each field, and so every record a read returns is the raw record        *)
(* decoded from headerLength + i * recordLength, each field from its own   *)
(* place in it.                                                            *)
(***************************************************************************)
C21_FieldsConsumeRecordLength ==
    (IsOpen /\ HoldsAllRecords)
    => /\ \A i \in 0..(dbf.recordCount - 1) :
             RecordStep(dbf, i).ok
             => RecordStep(dbf, i).offset = dbf._recordLength
       /\ (last.op # "none" /\ last.ok)
          => /\ Len(last.records)
                  <= Cardinality(NonSkipped(last.before, dbf.recordCount))
             /\ \A k \in 1..Len(last.records) :
                   last.records[k]
                     = AlignedRecord(NthNonSkipped(last.before, k))

\* field j is a memo field and raw record i holds in it the pointer 0 or
\* text that is not a number
NullPointer(i, j) ==
    /\ dbf.fields[j].type = CharM
    /\ PointerAt(i, j).ok
    /\ (PointerAt(i, j).nan \/ PointerAt(i, j).value = 0)

\* field j of raw record i decoded where it lies by handle h
DecodeWith(h, i, j) ==
    DecodeField(h, data, RawFieldOffset(i, j), dbf.fields[j])

\* the handle in either read mode, and with the memo buffer it has, with
\* none, and with an empty one
MemoVariants ==
    {[dbf EXCEPT !._readMode = mode, !._memoData = memo] :
        mode \in {"strict", "loose"},
        memo \in {dbf._memoData, NoMemoData, <<>>}}

(***************************************************************************)
(* C22: a memo field whose pointer is 0 or is not a number decodes to null *)
(* in both read modes whatever the memo buffer is (the one supplied, none, *)
(* an empty one), and a read without a memo buffer whose records hold only *)
(* such pointers does not fail, in strict mode too, and returns null for   *)
(* the field.                                                              *)
(***************************************************************************)
C22_NullPointerIsNull ==
    (IsOpen /\ HoldsAllRecords)
    => /\ \A i \in 0..(dbf.recordCount - 1) :
             \A j \in 1..Len(dbf.fields) :
                 NullPointer(i, j)
                 => \A h \in MemoVariants :
                       /\ DecodeWith(h, i, j).kind = "value"
                       /\ DecodeWith(h, i, j).value = NullValue
       /\ (last.op # "none" /\ memoData = NoMemoData
              /\ \A i \in ReadRange(last.before, last.maxCount) :
                    \A j \in 1..Len(dbf.fields) :
                        dbf.fields[j].type = CharM => NullPointer(i, j))
          => /\ last.ok
             /\ \A k \in 1..Len(last.records) :
                   \A j \in 1..Len(dbf.fields) :
                       dbf.fields[j].type = CharM
                       => last.records[k][StringKey(dbf.fields[j].name)]
                            = NullValue

\* a strict read without a memo buffer has returned a record whose memo
\* pointer is not a number and one whose pointer is 0
C22_Witness ==
    /\ IsOpen
    /\ HoldsAllRecords
    /\ memoData = NoMemoData
    /\ dbf._readMode = "strict"
    /\ last.op # "none"
    /\ last.ok
    /\ Len(last.records) = 2
    /\ \E j \in 1..Len(dbf.fields) :
          /\ NullPointer(0, j) /\ PointerAt(0, j).nan
          /\ NullPointer(1, j) /\ ~PointerAt(1, j).nan

\* the little-endian unsigned 16-bit integer at offset of buf
GetUint16LE(buf, offset) == ByteAt(buf, offset) + 256 * ByteAt(buf, offset + 1)

OrDefault(n) == IF n = 0 THEN DefaultBlockSize ELSE n

(***************************************************************************)
(* C23: the memo block size a read works with is, for versions 0x30 and    *)
(* 0xf5, the little-endian uint16 at offset 6 of the memo buffer, for      *)
(* version 0x8b the little-endian int32 at offset 4, 512 in place of zero, *)
(* and 512 for version 0x83.                                               *)
(***************************************************************************)
C23_BlockSizeLittleEndian ==
    (IsOpen /\ memoData # NoMemoData /\ Len(memoData) >= 8
        /\ dbf._version \in MemoVersions /\ last.op # "none")
    => MemoBlockSize(dbf).size
         = IF dbf._version \in {48, 245}
           THEN OrDefault(GetUint16LE(memoData, 6))
           ELSE IF dbf._version = 139
           THEN OrDefault(GetInt32LE(memoData, 4))
           ELSE DefaultBlockSize

\* where the text of the dBase III memo that starts at blockOffset ends: at
\* the first 0x1a from there on, or at the end of the memo buffer
TextEnd(blockOffset) ==
    LET marks == {n \in blockOffset..(Len(memoData) - 1) :
                     ByteAt(memoData, n) = MemoTerminator}
    IN  IF marks = {} THEN Len(memoData)
        ELSE CHOOSE n \in marks : \A k \in marks : n <= k

\* the bytes of the memo buffer from blockOffset up to the text's end
PlainTextBytes(blockOffset) ==
    [n \in 1..(TextEnd(blockOffset) - blockOffset) |->
        ByteAt(memoData, blockOffset + n - 1)]

(***************************************************************************)
(* C24: for version 0x83 the memo value of a returned record is the plain  *)
(* decoding of the bytes from blockIndex * 512 up to the first 0x1a after  *)
(* it (or the end of the memo buffer), with no character inserted or       *)
(* rewritten.                                                              *)
(***************************************************************************)
C24_Dbase3MemoIsPlainText ==
    (MemoReadable /\ dbf._version = 131 /\ last.op # "none" /\ last.ok)
    => \A k \in 1..Len(last.records) :
          \A j \in 1..Len(dbf.fields) :
              LET i == NthNonSkipped(last.before, k)
                  key == StringKey(dbf.fields[j].name)
              IN  HasPointer(i, j)
                  => /\ key \in DOMAIN last.records[k]
                     /\ last.records[k][key]
                          = StringValue(decodeBytes(
                                PlainTextBytes(PointerAt(i, j).value
                                               * DefaultBlockSize),
                                getEncoding(dbf._encoding, dbf.fields[j])))

\* 0x0008FFFF
Dbase4Marker == 589823

\* the block at blockOffset begins with the marker, read big-endian
HasMarker(blockOffset) == GetInt32BE(memoData, blockOffset) = Dbase4Marker

(***************************************************************************)
(* C25: for version 0x8b a memo value is read only from a block that       *)
(* begins with the big-endian marker 0x0008FFFF (from any other block the  *)
(* value is empty), and it is then the decoding of the bytes that start at *)
(* byte 8 of the block and number the little-endian uint32 at bytes 4-7    *)
(* less 8, across block boundaries.                                        *)
(***************************************************************************)
C25_Dbase4MemoFromMarkedBlock ==
    (MemoReadable /\ dbf._version = 139 /\ last.op # "none" /\ last.ok)
    => \A k \in 1..Len(last.records) :
          \A j \in 1..Len(dbf.fields) :
              LET i == NthNonSkipped(last.before, k)
                  key == StringKey(dbf.fields[j].name)
                  p == PointerAt(i, j).value
              IN  HasPointer(i, j)
                  => /\ key \in DOMAIN last.records[k]
                     /\ last.records[k][key]
                          = IF HasMarker(p * MemoBlockSize(dbf).size)
                            THEN StringValue(decodeBytes(
                                     PayloadBytes(p),
                                     getEncoding(dbf._encoding, dbf.fields[j])))
                            ELSE EmptyString

\* raw records from..to-1 that a read decodes and that cannot be decoded
ThrowingIn(from, to) == {i \in NonSkipped(from, to) : RecordThrows(i)}

\* where the cursor stands when a read of maxCount records that has come to
\* raw record start with `returned` records fails in decoding: past the
\* whole chunk that holds the first record that cannot be decoded; -1 if
\* the read decodes all its records
RECURSIVE FailedChunkEnd(_, _, _)
FailedChunkEnd(start, returned, maxCount) ==
    LET count == Min3(dbf.recordCount - start, maxCount - returned,
                      Min(maxCount, WindowSize))
    IN  IF ~(start < dbf.recordCount /\ returned < maxCount) \/ count <= 0
        THEN -1
        ELSE IF ThrowingIn(start, start + count) # {}
        THEN start + count
        ELSE FailedChunkEnd(start + count,
                            returned
                            + Cardinality(NonSkipped(start, start + count)),
                            maxCount)

\* the last read failed, and not for want of data or of a memo block size
DecodeFailed ==
    /\ IsOpen
    /\ HoldsAllRecords
    /\ MemoBlockSize(dbf).ok
    /\ last.op # "none"
    /\ ~last.ok

(***************************************************************************)
(* C26: when decoding a record throws inside readRecords, the cursor       *)
(* stands past the whole chunk that holds the record and the call hands    *)
(* over no record, those decoded before the throw included; every read     *)
(* starts at the cursor, which never goes back, so a later read resumes    *)
(* after that chunk.                                                       *)
(***************************************************************************)
C26_ThrowLosesChunk ==
    /\ [](DecodeFailed
          => /\ last.records = <<>>
             /\ Cursor = FailedChunkEnd(last.before, 0, last.maxCount)
             /\ ThrowingIn(last.before, Cursor) # {})
    /\ [][(IsOpen /\ status' = "open")
          => /\ dbf'._recordsRead >= dbf._recordsRead
             /\ last' # last => last'.before = dbf._recordsRead]_vars

\* a read threw on the second record after decoding the first, and a later
\* read of the exhausted handle returned nothing: no record was delivered
C26_Witness ==
    /\ IsOpen
    /\ HoldsAllRecords
    /\ MemoBlockSize(dbf).ok
    /\ dbf.recordCount = 2
    /\ ~RawDeleted(0)
    /\ ~RecordThrows(0)
    /\ RecordThrows(1)
    /\ threw
    /\ last.op = "read"
    /\ last.ok
    /\ last.before = 2
    /\ out = <<>>

\* the raw records that lie whole in the data
CompleteRecords ==
    IF Len(data) <= dbf._headerLength THEN 0
    ELSE (Len(data) - dbf._headerLength) \div dbf._recordLength

\* the records of the chunk that a read of maxCount records takes at raw
\* record start when it has `returned` records
ChunkCount(start, returned, maxCount) ==
    Min3(dbf.recordCount - start, maxCount - returned,
         Min(maxCount, WindowSize))

\* the chunk taken at start reaches past the end of the data
ShortChunk(start, returned, maxCount) ==
    /\ start < dbf.recordCount
    /\ returned < maxCount
    /\ start + ChunkCount(start, returned, maxCount) > CompleteRecords

\* no field of the handle can throw in decoding
OnlyPlainFields ==
    \A j \in 1..Len(dbf.fields) : dbf.fields[j].type \in {CharC, CharL}

(***************************************************************************)
(* C27: on a handle whose data holds fewer than recordCount whole records, *)
(* a read whose first chunk reaches past the end of the data throws, hands *)
(* over nothing and leaves the cursor where it was, also when the chunk    *)
(* begins with whole records; any read that fails hands over nothing and   *)
(* leaves the cursor at the start of a chunk that reaches past the data;   *)
(* and a read that returns has taken only chunks that lie in the data.     *)
(***************************************************************************)
C27_ShortDataThrowsAtChunkStart ==
    (IsOpen /\ dbf.recordCount > CompleteRecords /\ OnlyPlainFields
        /\ last.op # "none")
    => /\ ShortChunk(last.before, 0, last.maxCount)
          => (~last.ok /\ last.records = <<>> /\ Cursor = last.before)
       /\ ~last.ok
          => /\ last.records = <<>>
             /\ Cursor >= last.before
             /\ \E returned \in 0..(Cursor - last.before) :
                   ShortChunk(Cursor, returned, last.maxCount)
       /\ last.ok => Cursor <= CompleteRecords

\* a read of two records over data that holds the first of them whole has
\* thrown and left the cursor where it was
C27_Witness ==
    /\ IsOpen
    /\ dbf.recordCount = 2
    /\ CompleteRecords = 1
    /\ ~RawDeleted(0)
    /\ last.op # "none"
    /\ last.maxCount >= 2
    /\ last.before = 0
    /\ ~last.ok
    /\ Cursor = 0

\* how many times record r stands in the sequence seq
Occurrences(seq, r) == Cardinality({n \in 1..Len(seq) : seq[n] = r})

\* how many of the raw records that are not skipped decode to r
RawOccurrences(r) ==
    Cardinality({i \in NonSkipped(0, dbf.recordCount) : AlignedRecord(i) = r})

\* the records of a sequence, as a set
Yielded(seq) == {seq[n] : n \in 1..Len(seq)}

\* two iterators of the handle have both returned, and nothing else has
\* read from the handle
BothIteratorsDone ==
    /\ IsOpen
    /\ HoldsAllRecords
    /\ it_pc = "done"
    /\ jt_pc = "done"
    /\ iterations = 1
    /\ calls = 0

(***************************************************************************)
(* C28: a batch read is one step, so reads issued by interleaved callers   *)
(* and iterators of one handle take disjoint, consecutive ranges of raw    *)
(* records: each starts at the cursor the read before it left and nothing  *)
(* but a read moves the cursor; and when two interleaved iterators of the  *)
(* handle have both returned, every raw record that is not skipped has     *)
(* been yielded exactly once, by one of them.                              *)
(***************************************************************************)
C28_InterleavedReadsDisjoint ==
    /\ [][(IsOpen /\ status' = "open")
          => /\ dbf'._recordsRead >= dbf._recordsRead
             /\ last' # last => last'.before = dbf._recordsRead
             /\ last' = last => dbf'._recordsRead = dbf._recordsRead]_vars
    /\ [](BothIteratorsDone
          => \A r \in Yielded(it_out) \cup Yielded(jt_out)
                   \cup {AlignedRecord(i) :
                            i \in NonSkipped(0, dbf.recordCount)} :
                Occurrences(it_out, r) + Occurrences(jt_out, r)
                  = RawOccurrences(r))

\* the first iterator was abandoned, the second has returned, and the
\* iterators alone have read from the handle
AbandonedAndExhausted ==
    /\ IsOpen
    /\ it_pc = "abandoned"
    /\ jt_pc = "done"
    /\ calls = 0
    /\ ~threw

(***************************************************************************)
(* C29: the iterator reads batches of 100, and a batch read has moved the  *)
(* cursor past every raw record of the batch before any record of it is    *)
(* yielded; abandoning the iteration gives nothing back (cursor and        *)
(* records returned so far stay), every later read starts at the cursor,   *)
(* so the records of the batch that were not consumed are returned by no   *)
(* later read: once the handle is exhausted by another iteration, the      *)
(* records yielded number those returned by the reads less those           *)
(* abandoned.                                                              *)
(***************************************************************************)
C29_AbandonedBatchIsLost ==
    /\ [][(IsOpen /\ status' = "open")
          => /\ (last'.op = "fetch" => last'.maxCount = IterBatch)
             /\ (it_pc = "running" /\ it_buf = <<>> /\ it_buf' # <<>>)
                => /\ it_out' = it_out
                   /\ it_buf' = last'.records
                   /\ dbf'._recordsRead
                        = last'.before + Len(last'.records) + last'.skipped
             /\ (it_pc = "running" /\ it_pc' = "abandoned")
                => /\ dbf' = dbf
                   /\ out' = out
                   /\ it_buf' = it_buf
             /\ it_pc = "abandoned"
                => /\ it_buf' = it_buf
                   /\ it_out' = it_out
                   /\ dbf'._recordsRead >= dbf._recordsRead
                   /\ last' # last => last'.before = dbf._recordsRead]_vars
    /\ [](AbandonedAndExhausted
          => Len(it_out) + Len(jt_out) = Len(out) - Len(it_buf))

\* an iteration of a 101-record file was abandoned after its first record,
\* with records of its batch not consumed, and a second iteration has run
\* to the end and yielded the records after the batch
C29_Witness ==
    /\ AbandonedAndExhausted
    /\ dbf.recordCount > IterBatch
    /\ Len(it_out) = 1
    /\ Len(it_buf) > 1
    /\ Len(jt_out) >= 1
    /\ Cursor = dbf.recordCount

\* fields j and k of the handle, j before k, have one name
SameName(j, k) == j < k /\ dbf.fields[j].name = dbf.fields[k].name

HasDuplicateName ==
    \E j \in 1..Len(dbf.fields), k \in 1..Len(dbf.fields) : SameName(j, k)

\* the last field in descriptor order with the name of field j
LaterField(j) ==
    CHOOSE k \in 1..Len(dbf.fields) :
        /\ dbf.fields[k].name = dbf.fields[j].name
        /\ \A x \in 1..Len(dbf.fields) :
              dbf.fields[x].name = dbf.fields[j].name => x <= k

\* the string keys of a record
StringKeys(record) == (DOMAIN record) \ {DELETED}

\* every logical field has the one byte case "L" consumes
LogicalFieldsOneByte ==
    \A j \in 1..Len(dbf.fields) :
        dbf.fields[j].type = CharL => dbf.fields[j].size = 1

\* a loose read of a handle with a name twice has returned records
LooseDuplicateRead ==
    /\ IsOpen
    /\ dbf._readMode = "loose"
    /\ HasDuplicateName
    /\ LogicalFieldsOneByte
    /\ HoldsAllRecords
    /\ last.op # "none"
    /\ last.ok

\* no handle opened in strict mode has a name twice
StrictNamesDistinct ==
    (IsOpen /\ dbf._readMode = "strict") => ~HasDuplicateName

(***************************************************************************)
(* C30 as stated: in loose mode, when two descriptors share a name, every  *)
(* returned record has one entry under that name, with the value of the    *)
(* later field in descriptor order, and fewer keys than the handle has     *)
(* fields; in strict mode no opened handle has a name twice.               *)
(***************************************************************************)
C30_DuplicateNameHoldsLaterField ==
    /\ StrictNamesDistinct
    /\ LooseDuplicateRead
       => \A n \in 1..Len(last.records) :
             LET i == NthNonSkipped(last.before, n)
                 record == last.records[n]
             IN  /\ Cardinality(StringKeys(record)) < Len(dbf.fields)
                 /\ \A j \in 1..Len(dbf.fields), k \in 1..Len(dbf.fields) :
                       SameName(j, k)
                       => /\ StringKey(dbf.fields[j].name) \in DOMAIN record
                          /\ AlignedDecode(i, LaterField(j)).kind = "value"
                          /\ record[StringKey(dbf.fields[j].name)]
                               = AlignedDecode(i, LaterField(j)).value

(***************************************************************************)
(* C30 amended: in loose mode, when two descriptors share a name, every    *)
(* returned record has at most one entry under that name and fewer keys    *)
(* than the handle has fields; the entry has the value of the last field   *)
(* of that name, in descriptor order, that the record loop assigns (a      *)
(* field of a type without a case, or a memo field whose memo file is      *)
(* missing, assigns nothing and leaves an earlier field's value), and is   *)
(* absent when no field of the name assigns; in strict mode no opened      *)
(* handle has a name twice.                                                *)
(***************************************************************************)
C30_DuplicateNameHoldsLastAssigned ==
    /\ StrictNamesDistinct
    /\ LooseDuplicateRead
       => \A n \in 1..Len(last.records) :
             LET i == NthNonSkipped(last.before, n)
                 record == last.records[n]
             IN  /\ Cardinality(StringKeys(record)) < Len(dbf.fields)
                 /\ StringKeys(record)
                      = {StringKey(dbf.fields[j].name) : j \in ValuedFields(i)}
                 /\ \A key \in StringKeys(record) :
                       record[key]
                         = AlignedDecode(i, LastFieldNamed(i, key)).value

\* a loose read has returned a record of a file with the fields A: C,
\* B: C, A: L, B: X: its A is the logical value of the third field, its B
\* the string of the second, the fourth having assigned nothing
C30_Witness ==
    /\ LooseDuplicateRead
    /\ Len(last.records) >= 1
    /\ Len(dbf.fields) = 4
    /\ \E j \in 1..Len(dbf.fields) :
          /\ j # LaterField(j)
          /\ AlignedDecode(NthNonSkipped(last.before, 1), LaterField(j)).kind
               = "skip"
          /\ StringKey(dbf.fields[j].name) \in DOMAIN last.records[1]
    /\ \E j \in 1..Len(dbf.fields) :
          /\ j # LaterField(j)
          /\ AlignedDecode(NthNonSkipped(last.before, 1), LaterField(j)).kind
               = "value"
          /\ last.records[1][StringKey(dbf.fields[j].name)]
               = AlignedDecode(NthNonSkipped(last.before, 1),
                               LaterField(j)).value

====
